---- MODULE Spec2Model ----
(***************************************************************************)
(* Pure-pursuit path tracking of src/main.js: waypoint capture, segment    *)
(* derivation (getSegments), the controller step (updatePP) and the        *)
(* animation-frame simulation loop (startPP / ppFrame / stopPP).           *)
(*                                                                         *)
(* Numbers.  The program computes in IEEE doubles.  The model computes in  *)
(* fixed point with explicit rounding:                                     *)
(*   positions and lengths      whole inches                               *)
(*   unit vectors, fractions f,                                            *)
(*   cos and sin                thousandths            (MILLI)             *)
(*   arc length in the walk     thousandths of an inch (MILLI)             *)
(*   curvature (radiusInv)      millionths per inch    (MICRO)             *)
(*   angles                     units of 5 degrees     (PI = 36 units)     *)
(* NaN is a value of its own that every operation propagates and every     *)
(* comparison rejects, as in the program.  Math.cos never returns exactly  *)
(* 0 in doubles (Math.cos(Math.PI/2) = 6.1e-17); the model keeps that as   *)
(* the smallest non-zero value of its scale, with the sign the double has. *)
(***************************************************************************)
EXTENDS Integers, Sequences, FiniteSets

\* ------------------------------------------------------------------ bounds

\* Longest waypoint list the input events build.
MaxWaypoints == 3
\* Most ppFrame calls in one run (from startPP to the next startPP).
MaxTicks == 5
\* Most ppFrame callbacks startPP lets pile up in the animation-frame queue.
MaxPending == 2

\* Field positions the pointer events deliver (inches).
Points == { [x |-> 0, y |-> 0], [x |-> 40, y |-> 0], [x |-> 100, y |-> 0],
            [x |-> 100, y |-> 80] }

\* Elapsed milliseconds between two animation frames.
FrameDts == {100, 250}

\* ------------------------------------------------------- program constants

PURSUIT_DIST == 70
ROBOT_SPEED == 180
MIN_TURN_RADIUS == 50
SKIP_DIST == 40

\* ------------------------------------------------------------- arithmetic

\* Scales of the fixed-point numbers.
MILLI == 10^3
MICRO == 10^6
\* Math.PI in angle units; a full turn is 2*PI units.
PI == 36
HALF_PI == PI \div 2
TWO_PI == 2 * PI
\* 2*pi radians in millionths, to convert a turn in radians to angle units.
TWO_PI_MICRO == 6283185

\* The value of 0/0 and of every operation on it.
NaN == -777777777
\* The value of a variable or field that was never assigned.
Undefined == -888888888
\* +Infinity (a non-zero number divided by 0); -Infinity is its negation.
Infinity == 999999999

IsNaN(a) == a = NaN

\* Math.abs
Abs(a) == IF IsNaN(a) THEN NaN ELSE IF a < 0 THEN -a ELSE a

\* Math.sign
Sign(a) == IF IsNaN(a) THEN NaN ELSE IF a > 0 THEN 1 ELSE IF a < 0 THEN -1 ELSE 0

\* n/d rounded to the nearest integer, d > 0 (halves away from 0).
RoundDiv(n, d) ==
    IF n >= 0 THEN (2 * n + d) \div (2 * d) ELSE -((d - 2 * n) \div (2 * d))

Add(a, b) == IF IsNaN(a) \/ IsNaN(b) THEN NaN ELSE a + b
Sub(a, b) == IF IsNaN(a) \/ IsNaN(b) THEN NaN ELSE a - b
Mul(a, b) == IF IsNaN(a) \/ IsNaN(b) THEN NaN ELSE a * b
\* a*b/c rounded, c > 0: a product of two scaled numbers brought back to scale.
MulDiv(a, b, c) == IF IsNaN(a) \/ IsNaN(b) THEN NaN ELSE RoundDiv(a * b, c)
\* a/b rounded, b >= 0: 0/0 is NaN and any other number over 0 is +-Infinity.
Div(a, b) ==
    IF IsNaN(a) \/ IsNaN(b) THEN NaN
    ELSE IF b = 0 THEN (IF a = 0 THEN NaN ELSE Sign(a) * Infinity)
    ELSE RoundDiv(a, b)
\* a < b of two doubles: false when either is NaN.
Lt(a, b) == ~IsNaN(a) /\ ~IsNaN(b) /\ a < b
Gt(a, b) == ~IsNaN(a) /\ ~IsNaN(b) /\ a > b

\* The largest r in lo..hi with r*r <= n (lo*lo <= n).
RECURSIVE SqrtBetween(_, _, _)
SqrtBetween(n, lo, hi) ==
    IF lo >= hi THEN lo
    ELSE LET mid == (lo + hi + 1) \div 2
         IN IF mid * mid <= n THEN SqrtBetween(n, mid, hi)
            ELSE SqrtBetween(n, lo, mid - 1)

\* Math.hypot on whole inches, rounded to the nearest inch.
Hypot(a, b) ==
    IF IsNaN(a) \/ IsNaN(b) THEN NaN
    ELSE (SqrtBetween(4 * (a * a + b * b), 0, 2 * (Abs(a) + Abs(b))) + 1) \div 2

\* cos of 0, 5, ..., 85 degrees, in thousandths.
CosTable == << 1000, 996, 985, 966, 940, 906, 866, 819, 766,
               707, 643, 574, 500, 423, 342, 259, 174, 87 >>

\* Math.cos of an angle in units.  Even and periodic; at an odd multiple of
\* HALF_PI the double result is tiny but not 0, positive at pi/2 (+2k pi) and
\* negative at 3pi/2 (+2k pi).
Cos(a) ==
    IF IsNaN(a) THEN NaN
    ELSE LET m == Abs(a) % TWO_PI
         IN IF m = HALF_PI THEN 1
            ELSE IF m = PI + HALF_PI THEN -1
            ELSE IF m < HALF_PI THEN CosTable[m + 1]
            ELSE IF m <= PI THEN -CosTable[PI - m + 1]
            ELSE IF m < PI + HALF_PI THEN -CosTable[m - PI + 1]
            ELSE CosTable[TWO_PI - m + 1]

\* Math.sin of an angle in units.  Odd; sin(0) is exactly 0, and at the other
\* multiples of PI the double result is tiny but not 0.
Sin(a) ==
    IF IsNaN(a) THEN NaN
    ELSE IF a = 0 THEN 0
    ELSE LET s == IF a < 0 THEN -1 ELSE 1
             m == Abs(a)
         IN IF m % PI = 0
            THEN (IF (m \div PI) % 2 = 1 THEN s ELSE -s)
            ELSE s * Cos(HALF_PI - m)

\* The last direction k of lo..hi that (x, y) is not to the right of
\* (direction lo is not to its left).
RECURSIVE LastNotLeft(_, _, _, _)
LastNotLeft(y, x, lo, hi) ==
    IF lo >= hi THEN lo
    ELSE LET mid == (lo + hi + 1) \div 2
         IN IF y * Cos(mid) - x * Sin(mid) >= 0 THEN LastNotLeft(y, x, mid, hi)
            ELSE LastNotLeft(y, x, lo, mid - 1)

\* Math.atan2(y, x) in units: the direction of the grid closest to (x, y), in
\* the quadrant of (x, y); atan2(0, 0) = 0 and atan2(0, x < 0) = PI.
Atan2(y, x) ==
    IF IsNaN(y) \/ IsNaN(x) THEN NaN
    ELSE IF x = 0 /\ y = 0 THEN 0
    ELSE LET base == IF y >= 0 THEN (IF x > 0 THEN 0 ELSE HALF_PI)
                     ELSE (IF x >= 0 THEN -HALF_PI ELSE -PI)
             k == LastNotLeft(y, x, base, base + HALF_PI)
         IN IF k < base + HALF_PI
               /\ x * Cos(k + 1) + y * Sin(k + 1) > x * Cos(k) + y * Sin(k)
            THEN k + 1 ELSE k

\* normalizeAngle: a %= 2*Math.PI; if (a < 0) a += 2*Math.PI.
normalizeAngle(a) == IF IsNaN(a) THEN NaN ELSE a % TWO_PI

\* ------------------------------------------------------------------ state

VARIABLES
    waypoints,        \* var waypoints: the list of {x, y}
    segments,         \* var segments: the list getSegments built at startPP
    segmentsAssigned, \* FALSE while segments still holds undefined
    curSeg,           \* var curSeg (0-based, as in the program)
    robotX, robotY, robotDir,
    ppRunning,
    pending,          \* ppFrame callbacks waiting in the animation-frame queue
    ticks,            \* ppFrame calls of the current run
    threw,            \* whether the last operation ended in a TypeError
    res,              \* what the last updatePP call returned
    dones             \* updatePP calls of the current run that returned done

vars == << waypoints, segments, segmentsAssigned, curSeg, robotX, robotY, robotDir,
           ppRunning, pending, ticks, threw, res, dones >>

\* ------------------------------------------------------------- getSegments

\* One iteration of the loop of getSegments: the segment from p to q.
Segment(p, q) ==
    LET dx == q.x - p.x
        dy == q.y - p.y
        length == Hypot(dx, dy)
    IN [ x1 |-> p.x, y1 |-> p.y, x2 |-> q.x, y2 |-> q.y, dx |-> dx, dy |-> dy,
         ndx |-> Div(dx * MILLI, length), ndy |-> Div(dy * MILLI, length),
         length |-> length, angle |-> Atan2(dy, dx) ]

getSegments(w) ==
    IF Len(w) < 2 THEN << >>
    ELSE [ i \in 1 .. (Len(w) - 1) |-> Segment(w[i], w[i + 1]) ]

\* ---------------------------------------------------------------- updatePP

\* The normalized projection d of the robot on a segment, scaled by MILLI.
Frac(seg, rx, ry) ==
    LET x == Sub(rx, seg.x1)
        y == Sub(ry, seg.y1)
    IN Div(Add(Mul(x, seg.ndx), Mul(y, seg.ndy)), seg.length)

\* The first loop of updatePP: advance cs to the first segment with d < 1.0.
RECURSIVE Closest(_, _, _, _)
Closest(segs, cs, rx, ry) ==
    IF cs >= Len(segs)
    THEN [ curSeg |-> cs, d |-> Undefined, px0 |-> Undefined, py0 |-> Undefined ]
    ELSE LET seg == segs[cs + 1]
             d == Frac(seg, rx, ry)
         IN IF Lt(d, MILLI)
            THEN LET d0 == IF d < 0 THEN 0 ELSE d
                 IN [ curSeg |-> cs, d |-> d0,
                      px0 |-> seg.x1 + RoundDiv(d0 * seg.dx, MILLI),
                      py0 |-> seg.y1 + RoundDiv(d0 * seg.dy, MILLI) ]
            ELSE Closest(segs, cs + 1, rx, ry)

\* A pursuit walk that forgets the length of the segments it has walked.
RECURSIVE Pursuit_NoCarry(_, _, _)
Pursuit_NoCarry(segs, i, d) ==
    IF i >= Len(segs)
    THEN [ i |-> Len(segs) - 1, d |-> segs[Len(segs)].length * MILLI ]
    ELSE LET seg == segs[i + 1]
         IN IF d + seg.length * MILLI > PURSUIT_DIST * MILLI
            THEN [ i |-> i, d |-> PURSUIT_DIST * MILLI - d ]
            ELSE Pursuit_NoCarry(segs, i + 1, d)

\* The second loop of updatePP, d in thousandths of an inch: the segment i
\* of the pursuit point and its distance d from the start of that segment.
RECURSIVE Pursuit(_, _, _)
Pursuit(segs, i, d) ==
    IF i >= Len(segs)
    THEN [ i |-> Len(segs) - 1, d |-> segs[Len(segs)].length * MILLI ]
    ELSE LET seg == segs[i + 1]
         IN IF d + seg.length * MILLI > PURSUIT_DIST * MILLI
            THEN [ i |-> i, d |-> PURSUIT_DIST * MILLI - d ]
            ELSE Pursuit(segs, i + 1, d + seg.length * MILLI)

\* a = Math.PI/2 - (Math.atan2(pdy, pdx) - robotDir)
AngleA(pdx, pdy, rdir) == Sub(HALF_PI, Sub(Atan2(pdy, pdx), rdir))

\* radiusInv = Math.cos(a) / d with d = hypot(pdx, pdy) / 2, in MICRO.
RadiusInv(a, dist) == Div(Mul(Cos(a), 2 * MILLI), dist)

\* 1/MIN_TURN_RADIUS in MICRO.
MaxRadiusInv == MICRO \div MIN_TURN_RADIUS

\* A clamp test that looks at the angle alone.
BadRadius_AngleOnly(a, radiusInv) == Gt(normalizeAngle(a), PI)

\* The test on alpha = pi/2 - a in place of a.
BadRadius_Alpha(a, radiusInv) ==
    Gt(normalizeAngle(Sub(HALF_PI, a)), PI) \/ Gt(Abs(radiusInv), MaxRadiusInv)

\* The test that guards the clamp.
BadRadius(a, radiusInv) ==
    Gt(normalizeAngle(a), PI) \/ Gt(Abs(radiusInv), MaxRadiusInv)

\* A clamp that drops the sign.
Clamp_NoSign(radiusInv) == MaxRadiusInv

\* radiusInv = Math.sign(radiusInv) * 1/MIN_TURN_RADIUS
Clamp(radiusInv) == Mul(Sign(radiusInv), MaxRadiusInv)

\* Whether updatePP skips ahead to segment i and tries again.
SkipAhead(dist, cs, i) == Lt(dist, SKIP_DIST) /\ cs # i

\* The end of the path reported only by the call whose search ran off the end.
DoneResult_OnlyOnAdvance(from, cs) ==
    [ done |-> from # cs, radiusInv |-> 0, badRadius |-> FALSE,
      px0 |-> Undefined, py0 |-> Undefined, px |-> Undefined, py |-> Undefined,
      curSeg |-> cs, from |-> from, skips |-> 0, i |-> Undefined,
      raw |-> Undefined, a |-> Undefined ]

\* What updatePP returns when the path is over.
DoneResult(from, cs) ==
    [ done |-> TRUE, radiusInv |-> Undefined, badRadius |-> FALSE,
      px0 |-> Undefined, py0 |-> Undefined, px |-> Undefined, py |-> Undefined,
      curSeg |-> cs, from |-> from, skips |-> 0, i |-> Undefined,
      raw |-> Undefined, a |-> Undefined ]

\* updatePP on the segment list segs from curSeg = cs at pose (rx, ry, rdir),
\* stage by stage: each stage is handed what the stages before it computed.
\* Beside the fields the program returns, the result holds the final curSeg,
\* the index `from` at which the last search pass started, the number `skips`
\* of skip-ahead re-runs, the segment i of the pursuit point, the angle a and
\* the curvature `raw` before the clamp.
RECURSIVE updatePP(_, _, _, _, _)

\* The return statement, after the clamp test has given bad.
Steered(from, c, i, px, py, a, raw, bad) ==
    [ done |-> FALSE,
      radiusInv |-> IF bad THEN Clamp(raw) ELSE raw,
      badRadius |-> bad,
      px0 |-> c.px0, py0 |-> c.py0, px |-> px, py |-> py,
      curSeg |-> c.curSeg, from |-> from, skips |-> 0, i |-> i,
      raw |-> raw, a |-> a ]

\* The arc radius for the angle a and the distance dist to the pursuit point.
Steer(from, c, i, px, py, a, dist) ==
    LET raw == RadiusInv(a, dist)
    IN Steered(from, c, i, px, py, a, raw, BadRadius(a, raw))

\* A skip-ahead that also fires when the pursuit point is on segment curSeg:
\* a re-run that starts where the pass before it started.
SkipOrSteer_NoProgress(segs, from, rx, ry, rdir, c, i, px, py, dist) ==
    IF Lt(dist, SKIP_DIST) /\ c.curSeg # i
    THEN [ updatePP(segs, i, rx, ry, rdir) EXCEPT !.skips = @ + 1 ]
    ELSE IF Lt(dist, SKIP_DIST)
    THEN [ Steer(i, c, i, px, py, AngleA(Sub(px, rx), Sub(py, ry), rdir), dist)
             EXCEPT !.skips = @ + 1 ]
    ELSE Steer(from, c, i, px, py, AngleA(Sub(px, rx), Sub(py, ry), rdir), dist)

\* The skip-ahead test at distance dist from the pursuit point (px, py).
SkipOrSteer(segs, from, rx, ry, rdir, c, i, px, py, dist) ==
    IF SkipAhead(dist, c.curSeg, i)
    THEN [ updatePP(segs, i, rx, ry, rdir) EXCEPT !.skips = @ + 1 ]
    ELSE Steer(from, c, i, px, py, AngleA(Sub(px, rx), Sub(py, ry), rdir), dist)

\* The pursuit point t.d along segment t.i.
Target(segs, from, rx, ry, rdir, c, t) ==
    LET seg == segs[t.i + 1]
        px == Add(seg.x1, MulDiv(t.d, seg.ndx, MICRO))
        py == Add(seg.y1, MulDiv(t.d, seg.ndy, MICRO))
    IN SkipOrSteer(segs, from, rx, ry, rdir, c, t.i, px, py,
                   Hypot(Sub(px, rx), Sub(py, ry)))

\* The end-of-path test on the closest point c, then the pursuit walk.
Pursue(segs, from, rx, ry, rdir, c) ==
    IF c.curSeg = Len(segs)
    THEN DoneResult(from, c.curSeg)
    ELSE Target(segs, from, rx, ry, rdir, c,
                Pursuit(segs, c.curSeg, -(c.d * segs[c.curSeg + 1].length)))

updatePP(segs, cs, rx, ry, rdir) ==
    Pursue(segs, cs, rx, ry, rdir, Closest(segs, cs, rx, ry))

\* ---------------------------------------------------------------- simplify

\* simplifyPath passes tolerance 10; the squared tolerance.
SqTolerance == 10 * 10

\* Whether p deviates from the chord a-b by more than the tolerance
\* (perpendicular distance; distance to a when the chord is a single point).
Deviates(p, a, b) ==
    LET dx == b.x - a.x
        dy == b.y - a.y
        cross == dx * (p.y - a.y) - dy * (p.x - a.x)
    IN IF dx = 0 /\ dy = 0
       THEN (p.x - a.x) * (p.x - a.x) + (p.y - a.y) * (p.y - a.y) > SqTolerance
       ELSE cross * cross > SqTolerance * (dx * dx + dy * dy)

\* The squared deviation of p from the chord a-b, times the chord's squared
\* length (the same factor for every p of one chord, so it orders them).
Deviation(p, a, b) ==
    LET dx == b.x - a.x
        dy == b.y - a.y
        cross == dx * (p.y - a.y) - dy * (p.x - a.x)
    IN IF dx = 0 /\ dy = 0
       THEN (p.x - a.x) * (p.x - a.x) + (p.y - a.y) * (p.y - a.y)
       ELSE cross * cross

\* Douglas-Peucker between points[first] and points[last]: the points kept
\* strictly between the two.
RECURSIVE simplifyDPStep(_, _, _)
simplifyDPStep(points, first, last) ==
    IF last - first < 2 THEN << >>
    ELSE LET inner == (first + 1) .. (last - 1)
             far == CHOOSE k \in inner : \A j \in inner :
                        Deviation(points[k], points[first], points[last])
                            >= Deviation(points[j], points[first], points[last])
         IN IF Deviates(points[far], points[first], points[last])
            THEN simplifyDPStep(points, first, far) \o << points[far] >>
                     \o simplifyDPStep(points, far, last)
            ELSE << >>

\* simplify(points, 10, true)
simplify(points) ==
    IF Len(points) <= 2 THEN points
    ELSE << points[1] >> \o simplifyDPStep(points, 1, Len(points))
             \o << points[Len(points)] >>

\* ------------------------------------------------------------------ actions

NoResult == [ done |-> FALSE, radiusInv |-> Undefined, badRadius |-> FALSE,
              px0 |-> Undefined, py0 |-> Undefined, px |-> Undefined, py |-> Undefined,
              curSeg |-> Undefined, from |-> Undefined, skips |-> 0, i |-> Undefined,
              raw |-> Undefined, a |-> Undefined ]

Init ==
    /\ waypoints = << >>
    /\ segments = << >>
    /\ segmentsAssigned = FALSE
    /\ curSeg = Undefined
    /\ robotX = Undefined
    /\ robotY = Undefined
    /\ robotDir = Undefined
    /\ ppRunning = FALSE
    /\ pending = 0
    /\ ticks = 0
    /\ threw = FALSE
    /\ res = NoResult
    /\ dones = 0

\* An addWaypoint that rebuilds the segment list of the run under way.
AddWaypoint_Rebuild(p) ==
    /\ Len(waypoints) < MaxWaypoints
    /\ waypoints' = Append(waypoints, p)
    /\ segments' = getSegments(waypoints')
    /\ threw' = FALSE
    /\ UNCHANGED << segmentsAssigned, curSeg, robotX, robotY, robotDir,
                    ppRunning, pending, ticks, res, dones >>

\* addWaypoint(x, y), from touchStart / touchMove.
AddWaypoint(p) ==
    /\ Len(waypoints) < MaxWaypoints
    /\ waypoints' = Append(waypoints, p)
    /\ threw' = FALSE
    /\ UNCHANGED << segments, segmentsAssigned, curSeg, robotX, robotY, robotDir,
                    ppRunning, pending, ticks, res, dones >>

\* simplifyPath(), from touchEnd.
SimplifyPath ==
    /\ waypoints' = simplify(waypoints)
    /\ threw' = FALSE
    /\ UNCHANGED << segments, segmentsAssigned, curSeg, robotX, robotY, robotDir,
                    ppRunning, pending, ticks, res, dones >>

\* driveDist = ROBOT_SPEED * dt, in inches, for dt = ms/1000.
DriveDist(ms) == RoundDiv(ROBOT_SPEED * ms, MILLI)

\* turnAmount = driveDist * radiusInv, from radians to angle units.
TurnAmount(driveDist, radiusInv) ==
    IF IsNaN(radiusInv) THEN NaN
    ELSE RoundDiv(driveDist * radiusInv * TWO_PI, TWO_PI_MICRO)

\* The heading after the move of one frame.
NextDir(rdir, driveDist, radiusInv) == Add(rdir, TurnAmount(driveDist, radiusInv))

\* The x move along the heading from before the frame.
NextX_OldHeading(rx, driveDist, rdir, newDir) ==
    Add(rx, MulDiv(driveDist, Cos(rdir), MILLI))

\* The position after the move of one frame: it reads the new heading.
NextX(rx, driveDist, rdir, newDir) == Add(rx, MulDiv(driveDist, Cos(newDir), MILLI))
NextY(ry, driveDist, rdir, newDir) == Add(ry, MulDiv(driveDist, Sin(newDir), MILLI))

\* The body of ppFrame after updatePP has returned r: the move by driveDist,
\* with the globals at (rx, ry, rdir, running) and pend callbacks still queued.
Move(r, rx, ry, rdir, running, pend, driveDist) ==
    /\ res' = r
    /\ curSeg' = r.curSeg
    /\ IF r.done
       THEN /\ ppRunning' = FALSE
            /\ robotX' = rx
            /\ robotY' = ry
            /\ robotDir' = rdir
            /\ pending' = pend
       ELSE /\ ppRunning' = running
            /\ robotDir' = NextDir(rdir, driveDist, r.radiusInv)
            /\ robotX' = NextX(rx, driveDist, rdir, robotDir')
            /\ robotY' = NextY(ry, driveDist, rdir, robotDir')
            /\ pending' = IF running THEN pend + 1 ELSE pend

\* ppFrame, called with the globals at (cs, rx, ry, rdir, running), pend
\* callbacks still queued and ms milliseconds since the last frame.
ppFrame(segs, cs, rx, ry, rdir, running, pend, ms) ==
    Move(updatePP(segs, cs, rx, ry, rdir), rx, ry, rdir, running, pend, DriveDist(ms))

\* startPP without the reset of curSeg.
startCurSeg_Keep(old) == IF old = Undefined THEN 0 ELSE old

\* curSeg = 0 in startPP: the index a new run starts from, whatever the old one.
startCurSeg(old) == 0

\* startPP().  With fewer than two waypoints the reads of waypoints[0].x or
\* segments[0].angle throw a TypeError after the assignments before them.
StartPP ==
    /\ pending < MaxPending
    /\ segments' = getSegments(waypoints)
    /\ segmentsAssigned' = TRUE
    /\ UNCHANGED waypoints
    /\ IF Len(waypoints) = 0
       THEN /\ threw' = TRUE
            /\ UNCHANGED << curSeg, robotX, robotY, robotDir, ppRunning, pending,
                            ticks, res, dones >>
       ELSE IF Len(waypoints) = 1
       THEN /\ threw' = TRUE
            /\ robotX' = waypoints[1].x
            /\ robotY' = waypoints[1].y
            /\ UNCHANGED << curSeg, robotDir, ppRunning, pending,
                            ticks, res, dones >>
       ELSE /\ threw' = FALSE
            /\ ticks' = 1
            /\ ppFrame(segments', startCurSeg(curSeg), waypoints[1].x, waypoints[1].y,
                       segments'[1].angle, TRUE, pending, 0)
            /\ dones' = IF res'.done THEN 1 ELSE 0

\* An animation frame runs one queued ppFrame callback.
FrameFire(ms) ==
    /\ pending > 0
    /\ ticks < MaxTicks
    /\ threw' = FALSE
    /\ ticks' = ticks + 1
    /\ ppFrame(segments, curSeg, robotX, robotY, robotDir, ppRunning, pending - 1, ms)
    /\ dones' = IF res'.done THEN dones + 1 ELSE dones
    /\ UNCHANGED << waypoints, segments, segmentsAssigned >>

\* stopPP(), called from outside the loop.
StopPP ==
    /\ ppRunning' = FALSE
    /\ threw' = FALSE
    /\ UNCHANGED << waypoints, segments, segmentsAssigned, curSeg, robotX, robotY,
                    robotDir, pending, ticks, res, dones >>

Next ==
    \/ \E p \in Points : AddWaypoint(p)
    \/ SimplifyPath
    \/ StartPP
    \/ \E ms \in FrameDts : FrameFire(ms)
    \/ StopPP

Spec == Init /\ [][Next]_vars

\* ------------------------------------------------------- steps of a run

\* A startPP that gets past its reads and runs the first ppFrame.
StartRun == StartPP /\ Len(waypoints) >= 2

\* An animation frame.
FrameStep == \E ms \in FrameDts : FrameFire(ms)

\* A step in which updatePP is called, and what it is called on.
UpdateStep == StartRun \/ FrameStep
CallSeg == IF StartRun THEN 0 ELSE curSeg
CallX == IF StartRun THEN waypoints[1].x ELSE robotX
CallY == IF StartRun THEN waypoints[1].y ELSE robotY
CallDir == IF StartRun THEN segments'[1].angle ELSE robotDir

\* Whether updatePP has returned a result in the current run.
HasResult == res.curSeg # Undefined

\* Whether the run is on a path without coincident consecutive waypoints.
ProperPath == \A k \in 1 .. Len(segments) : segments[k].length > 0

\* ------------------------------------------------------------------ claims

\* C1: within a run curSeg never decreases, whatever the step (skip-ahead
\* re-runs included), it always lies in 0..segments.length, and a startPP
\* that starts a run searches from index 0 again, whatever curSeg was.
C1_CurSegMonotone ==
    [][ /\ (curSeg' # Undefined => curSeg' \in 0 .. Len(segments'))
        /\ (~StartPP /\ curSeg # Undefined => curSeg' >= curSeg)
        /\ (StartRun =>
               curSeg' = updatePP(segments', 0, waypoints[1].x, waypoints[1].y,
                                  segments'[1].angle).curSeg) ]_vars

\* A run in which a skip-ahead re-run has advanced curSeg.
C1_Witness == ProperPath /\ HasResult /\ ~res.done /\ res.skips >= 1 /\ curSeg >= 1 /\ ticks >= 2

\* C2: updatePP returns done exactly when the projection f of the robot is
\* >= 1.0 on every segment from curSeg (as the last search pass found it) to
\* the last one; otherwise it returns a pursuit point and a curvature.
C2_DoneIffAllPassed ==
    [][ UpdateStep =>
          /\ res'.done =
                (\A k \in res'.from .. (Len(segments') - 1) :
                    LET f == Frac(segments'[k + 1], CallX, CallY)
                    IN ~IsNaN(f) /\ f >= MILLI)
          /\ (~res'.done => res'.px # Undefined /\ res'.radiusInv # Undefined) ]_vars

\* C3: in a run complete is returned exactly once; the frame that gets it
\* does not move the robot and schedules no frame, and from then on the pose
\* does not change and ppRunning is false (until the next startPP).
C3_CompleteOnce ==
    [][ /\ dones' <= 1
        /\ (FrameStep /\ res'.done =>
               /\ UNCHANGED << robotX, robotY, robotDir >>
               /\ pending' = pending - 1
               /\ ~ppRunning')
        /\ (dones >= 1 /\ ~StartPP =>
               UNCHANGED << robotX, robotY, robotDir >> /\ ~ppRunning') ]_vars

\* C4: once updatePP has returned done, every further call in the same run
\* returns done again and leaves curSeg, segments and the pose as they were.
C4_DoneIdempotent ==
    [][ FrameStep /\ dones >= 1 =>
          /\ res'.done
          /\ UNCHANGED << curSeg, segments, robotX, robotY, robotDir >> ]_vars

\* A run in which updatePP was called again after it had returned done.
C4_Witness == ProperPath /\ dones >= 2 /\ res.done /\ curSeg = Len(segments)

\* C5: startPP with fewer than 2 waypoints fails cleanly: segments, curSeg,
\* the pose and ppRunning keep their values and no index out of range is read.
C5_StartFailsCleanly ==
    [][ StartPP /\ Len(waypoints) < 2 =>
          /\ UNCHANGED << segments, segmentsAssigned, curSeg, robotX, robotY,
                          robotDir, ppRunning >>
          /\ ~threw' ]_vars

\* C6: every segment getSegments returned has length > 0 and a defined unit
\* direction, coincident consecutive waypoints included.
C6_NoZeroLengthSegment ==
    \A k \in 1 .. Len(segments) :
        /\ segments[k].length > 0
        /\ ~IsNaN(segments[k].ndx)
        /\ ~IsNaN(segments[k].ndy)

\* C7: a result with badRadius true has a radiusInv of magnitude exactly
\* 1/MIN_TURN_RADIUS and of the sign of the curvature before the clamp; it is
\* never 0.
C7_ClampedMagnitudeAndSign ==
    HasResult /\ ~res.done /\ res.badRadius =>
        /\ Abs(res.radiusInv) = MaxRadiusInv
        /\ Sign(res.radiusInv) = Sign(res.raw)
        /\ res.radiusInv # 0

\* A right turn that the clamp has cut down to the minimum turn radius.
C7_Witness ==
    /\ ProperPath
    /\ HasResult /\ ~res.done /\ res.badRadius
    /\ res.radiusInv = -MaxRadiusInv
    /\ res.raw < -MaxRadiusInv

\* alpha = bearing(robot -> target) - robotDir, for the target (px, py) and
\* the pose (rx, ry, rdir).
Alpha(px, py, rx, ry, rdir) == Sub(Atan2(Sub(py, ry), Sub(px, rx)), rdir)

\* C8 as stated: updatePP clamps exactly when alpha, normalized to [0, 2pi),
\* exceeds pi or the magnitude of the curvature exceeds 1/MIN_TURN_RADIUS, and
\* returns the curvature unchanged otherwise.
C8_ClampIffAlphaOverPi ==
    [][ UpdateStep /\ ~res'.done =>
          \A rx \in {CallX}, ry \in {CallY}, rdir \in {CallDir}, r \in {res'} :
          \A n \in {normalizeAngle(Alpha(r.px, r.py, rx, ry, rdir))} :
             /\ r.badRadius = (Gt(n, PI) \/ Gt(Abs(r.raw), MaxRadiusInv))
             /\ (~r.badRadius => r.radiusInv = r.raw) ]_vars

\* C8, amended: updatePP clamps exactly when alpha, normalized to [0, 2pi),
\* lies strictly between pi/2 and 3pi/2 (the target is behind the robot) or
\* the magnitude of the curvature exceeds 1/MIN_TURN_RADIUS, and returns the
\* curvature unchanged otherwise.
C8_ClampIffTargetBehind ==
    [][ UpdateStep /\ ~res'.done =>
          \A rx \in {CallX}, ry \in {CallY}, rdir \in {CallDir}, r \in {res'} :
          \A n \in {normalizeAngle(Alpha(r.px, r.py, rx, ry, rdir))} :
             /\ r.badRadius = (\/ Gt(n, HALF_PI) /\ Lt(n, PI + HALF_PI)
                               \/ Gt(Abs(r.raw), MaxRadiusInv))
             /\ (~r.badRadius => r.radiusInv = r.raw) ]_vars

\* A result clamped for the angle alone: the curvature was within the limit.
C8_Witness ==
    /\ ProperPath
    /\ HasResult /\ ~res.done /\ res.badRadius
    /\ Abs(res.raw) <= MaxRadiusInv
    /\ normalizeAngle(res.a) > PI

\* C9: with L = distance robot -> target > 0, the curvature before the clamp
\* is 2*sin(alpha)/L, sign and magnitude, so 0 when the heading points
\* straight at the target.
C9_CurvatureIsTwoSinOverL ==
    [][ UpdateStep /\ ~res'.done =>
          \A rx \in {CallX}, ry \in {CallY}, rdir \in {CallDir}, r \in {res'} :
          \A L \in {Hypot(Sub(r.px, rx), Sub(r.py, ry))},
             alpha \in {Alpha(r.px, r.py, rx, ry, rdir)} :
             Gt(L, 0) =>
                /\ r.raw = Div(Mul(Sin(alpha), 2 * MILLI), L)
                /\ (alpha = 0 => r.raw = 0) ]_vars

\* C10: a frame that moves the robot first adds driveDist * radiusInv to the
\* heading, driveDist = ROBOT_SPEED * dt whatever dt, and then advances the
\* position by driveDist along the new heading.
C10_HeadingThenPosition ==
    [][ \A ms \in FrameDts :
          FrameFire(ms) /\ ~res'.done =>
             LET driveDist == RoundDiv(ROBOT_SPEED * ms, MILLI)
             IN /\ robotDir' = Add(robotDir, TurnAmount(driveDist, res'.radiusInv))
                /\ robotX' = Add(robotX, MulDiv(driveDist, Cos(robotDir'), MILLI))
                /\ robotY' = Add(robotY, MulDiv(driveDist, Sin(robotDir'), MILLI)) ]_vars

\* A frame has turned the robot away from the heading it started the run with.
C10_Witness ==
    /\ ProperPath
    /\ HasResult /\ ~res.done /\ ticks >= 2
    /\ ~IsNaN(robotDir)
    /\ robotDir # segments[1].angle
    /\ res.radiusInv # 0

\* The segment list of the straight path [(0,0), (100,0)].
StraightPath == getSegments(<< [x |-> 0, y |-> 0], [x |-> 100, y |-> 0] >>)

\* C11: on the straight path [(0,0), (100,0)] every updatePP call that is not
\* complete returns curvature 0 and the move after it leaves robotY = 0 and
\* robotDir = 0; the call is complete exactly when robotX >= 100.
C11_StraightPathZeroCurvature ==
    [][ UpdateStep /\ segments' = StraightPath =>
          /\ res'.done = (CallX >= 100)
          /\ (~res'.done =>
                 /\ res'.radiusInv = 0
                 /\ robotY' = 0
                 /\ robotDir' = 0) ]_vars

\* C12: between one startPP and the next no event changes the segment list
\* or a field of a segment.
C12_SegmentsFixed ==
    [][ ~StartPP => UNCHANGED segments ]_vars

\* A run goes on while the waypoints have changed under it.
C12_Witness ==
    /\ ProperPath
    /\ HasResult /\ ~res.done /\ ticks >= 3
    /\ Len(waypoints) >= 2
    /\ segments # getSegments(waypoints)

\* C13: every updatePP call returns, from whatever index its search starts:
\* each skip-ahead moves curSeg to an index strictly greater than the one the
\* search pass had found and at most segments.length-1, so a call makes at
\* most segments.length-1 re-runs.
C13_SkipAheadProgress ==
    [][ UpdateStep =>
          \A segs \in {segments'}, rx \in {CallX}, ry \in {CallY}, rdir \in {CallDir} :
          \A k \in 0 .. Len(segs) :
             LET r == updatePP(segs, k, rx, ry, rdir)
             IN /\ r.skips <= Len(segs) - 1
                /\ (r.skips >= 1 =>
                       /\ r.from >= Closest(segs, k, rx, ry).curSeg + r.skips
                       /\ r.from <= Len(segs) - 1
                       /\ r.curSeg >= r.from) ]_vars

\* A first updatePP that skips ahead and finds the path complete.
C13_Witness ==
    /\ ProperPath
    /\ HasResult /\ res.done /\ res.skips >= 1
    /\ ticks = 1

\* C14: a search pass skips ahead exactly when the robot is less than
\* SKIP_DIST from the pursuit point and the point is on a later segment than
\* curSeg, so every result that is not complete has the pursuit point at
\* SKIP_DIST or more from the robot, or on segment curSeg; a result reached
\* by a skip-ahead comes from the search restarted at the segment skipped to.
C14_SkipAheadExactly ==
    [][ UpdateStep =>
          \A segs \in {segments'}, rx \in {CallX}, ry \in {CallY}, rdir \in {CallDir} :
          \A k \in 0 .. Len(segs) :
          \A r \in {updatePP(segs, k, rx, ry, rdir)} :
             /\ ~r.done =>
                   \/ r.i = r.curSeg
                   \/ \E dist \in {Hypot(Sub(r.px, rx), Sub(r.py, ry))} :
                         ~IsNaN(dist) /\ dist >= SKIP_DIST
             /\ r.skips >= 1 =>
                   r = [ updatePP(segs, r.from, rx, ry, rdir)
                           EXCEPT !.skips = r.skips ] ]_vars

\* The Euclidean distance between two points, in whole inches.
Dist(x1, y1, x2, y2) == Hypot(Sub(x2, x1), Sub(y2, y1))

\* The summed length of the segments with (0-based) indices lo .. hi.
RECURSIVE SumLengths(_, _, _)
SumLengths(segs, lo, hi) ==
    IF lo > hi THEN 0 ELSE segs[lo + 1].length + SumLengths(segs, lo + 1, hi)

\* The path length, in thousandths of an inch, that remains after the closest
\* point of the robot at (rx, ry) on segment cs: the rest of that segment
\* past max(f, 0), then every later segment.
RemainingMilli(segs, cs, rx, ry) ==
    LET f == Frac(segs[cs + 1], rx, ry)
    IN (MILLI - (IF f < 0 THEN 0 ELSE f)) * segs[cs + 1].length
          + MILLI * SumLengths(segs, cs + 1, Len(segs) - 1)

\* The arc length along the polyline from (x0, y0) on segment cs to (px, py)
\* on segment i >= cs.
ArcLength(segs, cs, x0, y0, i, px, py) ==
    IF i = cs THEN Dist(x0, y0, px, py)
    ELSE Add(Add(Dist(x0, y0, segs[cs + 1].x2, segs[cs + 1].y2),
                 SumLengths(segs, cs + 1, i - 1)),
             Dist(segs[i + 1].x1, segs[i + 1].y1, px, py))

\* Whether (px, py) lies on the segment seg, to the rounding of whole inches.
OnSegment(seg, px, py) ==
    \E through \in {Add(Dist(seg.x1, seg.y1, px, py), Dist(px, py, seg.x2, seg.y2))} :
        ~IsNaN(through) /\ through <= seg.length + 2

\* C15: when more than PURSUIT_DIST of path remains after the closest point,
\* the pursuit point lies on segment i, at arc length PURSUIT_DIST along the
\* polyline from the closest point (to the rounding of whole inches).
C15_TargetAtPursuitDist ==
    [][ UpdateStep /\ ~res'.done =>
          \A segs \in {segments'}, rx \in {CallX}, ry \in {CallY}, r \in {res'} :
             RemainingMilli(segs, r.curSeg, rx, ry) > PURSUIT_DIST * MILLI =>
                /\ r.i \in r.curSeg .. (Len(segs) - 1)
                /\ OnSegment(segs[r.i + 1], r.px, r.py)
                /\ \E arc \in {ArcLength(segs, r.curSeg, r.px0, r.py0, r.i, r.px, r.py)} :
                      ~IsNaN(arc) /\ Abs(arc - PURSUIT_DIST) <= 2 ]_vars

\* The pursuit point is around a corner: on the segment after the closest
\* point's, with path left beyond it.
C15_Witness ==
    /\ ProperPath
    /\ HasResult /\ ~res.done /\ res.skips = 0
    /\ res.i = res.curSeg + 1
    /\ res.px # segments[res.i + 1].x2 \/ res.py # segments[res.i + 1].y2
    /\ Dist(res.px0, res.py0, res.px, res.py) < PURSUIT_DIST - 2

\* C16: when at most PURSUIT_DIST of path remains after the closest point, the
\* pursuit point is the final waypoint and i is segments.length-1.
C16_TargetCapsAtEnd ==
    [][ UpdateStep /\ ~res'.done =>
          \A segs \in {segments'}, rx \in {CallX}, ry \in {CallY}, r \in {res'} :
             RemainingMilli(segs, r.curSeg, rx, ry) <= PURSUIT_DIST * MILLI =>
                /\ r.i = Len(segs) - 1
                /\ r.px = segs[Len(segs)].x2
                /\ r.py = segs[Len(segs)].y2 ]_vars

\* C17: in a result that is not complete the closest point is on segment
\* curSeg, at start + max(f, 0) * (dx, dy) with 0 <= max(f, 0) < 1; that
\* segment is the first from the index the search started at with f < 1.0,
\* and every segment passed over before it had f >= 1.0.
C17_ClosestPoint ==
    [][ UpdateStep /\ ~res'.done =>
          \A segs \in {segments'}, rx \in {CallX}, ry \in {CallY}, r \in {res'} :
             /\ r.curSeg \in r.from .. (Len(segs) - 1)
             /\ \E f \in {Frac(segs[r.curSeg + 1], rx, ry)} :
                \E f0 \in {IF f < 0 THEN 0 ELSE f} :
                   /\ ~IsNaN(f) /\ f < MILLI
                   /\ f0 >= 0 /\ f0 < MILLI
                   /\ r.px0 = segs[r.curSeg + 1].x1
                                 + RoundDiv(f0 * segs[r.curSeg + 1].dx, MILLI)
                   /\ r.py0 = segs[r.curSeg + 1].y1
                                 + RoundDiv(f0 * segs[r.curSeg + 1].dy, MILLI)
             /\ \A k \in r.from .. (r.curSeg - 1) :
                   \E f \in {Frac(segs[k + 1], rx, ry)} : ~IsNaN(f) /\ f >= MILLI ]_vars

\* C18: whatever the sequence of startPP, stopPP and animation frames, at most
\* one ppFrame callback is pending.
C18_OnePendingFrame == pending <= 1

\* C19: on a path of positive-length segments every result that is not
\* complete has |radiusInv| <= 1/MIN_TURN_RADIUS, and the frame that applies it
\* turns the heading by at most driveDist/MIN_TURN_RADIUS.
C19_CurvatureBounded ==
    [][ /\ UpdateStep /\ ~res'.done /\ ProperPath' =>
             /\ ~IsNaN(res'.radiusInv)
             /\ Abs(res'.radiusInv) <= MICRO \div MIN_TURN_RADIUS
        /\ \A ms \in FrameDts :
             FrameFire(ms) /\ ~res'.done /\ ProperPath =>
                \E turn \in {Sub(robotDir', robotDir)},
                   driveDist \in {DriveDist(ms)} :
                   /\ ~IsNaN(turn)
                   /\ Abs(turn) <= TurnAmount(driveDist, MICRO \div MIN_TURN_RADIUS) ]_vars

\* A frame has applied a curvature that only its magnitude got clamped.
C19_Witness ==
    /\ ProperPath
    /\ HasResult /\ ~res.done /\ ticks >= 2
    /\ res.badRadius
    /\ normalizeAngle(res.a) <= PI
    /\ Abs(res.raw) > MaxRadiusInv

====
